---- MODULE Spec2Model ----
(***************************************************************************)
(* Model of the film extraction pipeline of src/data_extraction.py:        *)
(* table selection, column resolution, row extraction and normalisation,   *)
(* detail extraction and the enrichment loop.                              *)
(*                                                                         *)
(* Text is a sequence of one-character strings, so that str.strip, .lower, *)
(* the `in` substring test and the regular expressions of the source are   *)
(* computed character by character.                                        *)
(***************************************************************************)
EXTENDS Integers, Sequences, FiniteSets, TLC

VARIABLES
    pc,              \* control point of the running function
    doc,             \* the parsed document: its headings and tables in document order
    tables,          \* parse_html_content: candidate list (indices into doc)
    table,           \* parse_html_content: selected table (index into doc, 0 = None)
    headers,         \* parse_html_content: lower-cased header texts of the header row
    title_idx,
    year_idx,
    box_office_idx,
    nrows,           \* data rows of the selected table consumed so far
    cells,           \* the cells of the data row consumed last
    heap,            \* the record objects (dicts) created so far; an object's id is its index
    films_data,      \* list of record objects (ids into heap)
    arg,             \* the text a cell-level function is applied to
    result,          \* what that function returned
    enriched_data,   \* enrich_film_data: the list it works on and returns (ids into heap)
    idx,             \* enrich_film_data: position of the loop in enriched_data, from 1
    consecutive_failures,
    current_delay,   \* delay before the jitter, in units of 1 / DelayScale seconds
    actual_delay,    \* delay slept, in the same units
    attempt,         \* get_film_details: the retry loop's attempt
    details,         \* get_film_details: the dict it returns
    calls,           \* the calls of get_film_details made: position, returned details
                     \* and number of requests
    log,             \* get_film_details: the attempts of the running call
    db,              \* the rows of the films table of the database file, as committed
    json_file,       \* the array written to the JSON file, <<>> before the first export
    runs,            \* runs of main started
    called,          \* main: the functions the running or last run has called, in order
    outcome,         \* main: how the last run ended
    max_films,       \* notebook enrich_film_data: <<>> for None, <<k>> for the cap k
    films_to_enrich  \* notebook enrich_film_data: the sliced list (ids into heap)

selVars == <<doc, tables, table>>
colVars == <<headers, title_idx, year_idx, box_office_idx>>
rowVars == <<nrows, cells, heap, films_data>>
fnVars == <<arg, result>>
enrichVars == <<enriched_data, idx, consecutive_failures, current_delay, actual_delay,
                attempt, details, calls>>
\* the state outside parse_html_content
outVars == <<fnVars, enrichVars>>
mainVars == <<db, json_file, runs, called, outcome>>
nbVars == <<max_films, films_to_enrich>>
\* the state outside parse_html_content and data_extraction.enrich_film_data
otherVars == <<mainVars, nbVars, log>>
vars == <<pc, doc, tables, table, headers, title_idx, year_idx, box_office_idx,
          nrows, cells, heap, films_data, arg, result, enriched_data, idx,
          consecutive_failures, current_delay, actual_delay, attempt, details, calls,
          log, db, json_file, runs, called, outcome, max_films, films_to_enrich>>

-----------------------------------------------------------------------------
(* Bounds of the model *)

MaxNodes == 3
MaxHeaders == 3
MaxDigits == 12
MaxCells == 3
MaxRows == 1
MaxTableRows == 3
MaxText == 6
MaxFilms == 3
MaxFailures == 20
JitterSteps == 4
MaxRuns == 2
MaxLiveFilms == 2

-----------------------------------------------------------------------------
(* Text primitives *)

Digits == {"0", "1", "2", "3", "4", "5", "6", "7", "8", "9"}

IsDigit(c) == c \in Digits

\* str.strip() and \s: the only whitespace character of the model's texts is the blank
IsSpace(c) == c = " "

LowerChar(c) ==
    CASE c = "T" -> "t" [] c = "F" -> "f" [] c = "R" -> "r" [] c = "W" -> "w"
      [] c = "B" -> "b" [] c = "G" -> "g" [] c = "Y" -> "y" [] c = "P" -> "p"
      [] c = "H" -> "h" [] c = "S" -> "s" [] c = "A" -> "a"
      [] OTHER -> c

\* str.lower()
Lower(s) == [i \in 1..Len(s) |-> LowerChar(s[i])]

RECURSIVE LStrip(_)
LStrip(s) == IF s # <<>> /\ IsSpace(Head(s)) THEN LStrip(Tail(s)) ELSE s

RECURSIVE RStrip(_)
RStrip(s) ==
    IF s # <<>> /\ IsSpace(s[Len(s)]) THEN RStrip(SubSeq(s, 1, Len(s) - 1)) ELSE s

\* str.strip()
Strip(s) == RStrip(LStrip(s))

\* the `kw in s` substring test
Contains(s, kw) ==
    \E i \in 1..(Len(s) - Len(kw) + 1) : SubSeq(s, i, i + Len(kw) - 1) = kw

-----------------------------------------------------------------------------
(* Header texts and keywords *)

KwTitle == <<"t","i","t","l","e">>
KwFilm == <<"f","i","l","m">>
KwBoxOffice == <<"b","o","x"," ","o","f","f","i","c","e">>
KwGross == <<"g","r","o","s","s">>
KwWorldwide == <<"w","o","r","l","d","w","i","d","e">>
KwYear == <<"y","e","a","r">>
KwReleased == <<"r","e","l","e","a","s","e","d">>
KwRelease == <<"r","e","l","e","a","s","e">>
KwHeading == <<"h","i","g","h","e","s","t","-","g","r","o","s","s","i","n","g"," ",
               "f","i","l","m","s">>

HRank == <<"R","a","n","k">>
HTitle == <<"T","i","t","l","e">>
HFilm == <<" ","F","i","l","m"," ">>
HFilmSeries == <<"F","i","l","m"," ","s","e","r","i","e","s">>
HWorldwideGross == <<"W","o","r","l","d","w","i","d","e"," ","g","r","o","s","s">>
HBoxOffice == <<"B","o","x"," ","o","f","f","i","c","e">>
HYear == <<"Y","e","a","r">>
HReleased == <<"R","e","l","e","a","s","e","d">>
HPeak == <<"P","e","a","k">>
HDollar == <<"$"," ","(","U","S",")">>
HSubtitle == <<"S","U","B","T","I","T","L","E">>

\* header-cell texts the header lists are drawn from
HeaderTexts ==
    {HRank, HTitle, HFilm, HFilmSeries, HWorldwideGross, HBoxOffice, HYear,
     HReleased, HPeak, HDollar, HSubtitle, <<>>}

RECURSIVE SeqsUpTo(_, _)
SeqsUpTo(S, n) ==
    IF n = 0 THEN {<<>>}
    ELSE LET shorter == SeqsUpTo(S, n - 1)
         IN shorter \cup {Append(s, x) : s \in {t \in shorter : Len(t) = n - 1}, x \in S}

\* first index of a sequence of test results that is TRUE, 0 when none
\* (Python's for/if/break scans and find)
RECURSIVE FirstFrom(_, _)
FirstFrom(bs, i) ==
    IF i > Len(bs) THEN 0 ELSE IF bs[i] THEN i ELSE FirstFrom(bs, i + 1)

First(bs) == FirstFrom(bs, 1)

-----------------------------------------------------------------------------
(* The document *)

HdHighest == <<"H","i","g","h","e","s","t","-","g","r","o","s","s","i","n","g"," ",
               "f","i","l","m","s">>
HdSeeAlso == <<"S","e","e"," ","a","l","s","o">>

Heading(tag, text) == [kind |-> tag, text |-> text]

\* a table: its class, whether it has any <tr>, the <th> texts of its first <tr>,
\* and the <th> texts of its later rows (row headers of the body)
Table(wikitable, tr, head, body_th) ==
    [kind |-> "table", wikitable |-> wikitable, tr |-> tr, head |-> head,
     body_th |-> body_th]

HeadingNodes ==
    {Heading("h2", HdHighest), Heading("h2", HdSeeAlso), Heading("h4", HdHighest)}

TableNodes ==
    {Table(w, TRUE, h, <<>>) :
        w \in BOOLEAN,
        h \in {<<HRank, HTitle, HWorldwideGross>>, <<HYear, HFilm>>}}
    \cup {Table(w, TRUE, <<HRank, HBoxOffice>>, <<HFilmSeries>>) : w \in BOOLEAN}
    \cup {Table(TRUE, TRUE, <<>>, <<>>), Table(FALSE, FALSE, <<>>, <<>>)}

Nodes == HeadingNodes \cup TableNodes

Docs == SeqsUpTo(Nodes, MaxNodes)

IsTable(n) == n.kind = "table"

\* the indices at which a sequence of test results is TRUE, in order (find_all)
RECURSIVE FindAllFrom(_, _)
FindAllFrom(bs, i) ==
    IF i > Len(bs) THEN <<>>
    ELSE IF bs[i] THEN <<i>> \o FindAllFrom(bs, i + 1) ELSE FindAllFrom(bs, i + 1)

\* soup.find_all('table', class_='wikitable')
WikiTables(d) ==
    FindAllFrom([i \in 1..Len(d) |-> IsTable(d[i]) /\ d[i].wikitable], 1)

\* soup.find_all('table')
AllTables(d) == FindAllFrom([i \in 1..Len(d) |-> IsTable(d[i])], 1)

\* the headings the section lookup accepts
IsSectionHeading(n) ==
    /\ n.kind \in {"h1", "h2", "h3"}
    /\ Contains(Lower(n.text), KwHeading)

\* soup.find(lambda ...): index of the first such heading, 0 = None
SectionHeading(d) == First([i \in 1..Len(d) |-> IsSectionHeading(d[i])])

\* tag.find_next('table'): index of the first table after position i, 0 = None
FindNextTable(d, i) ==
    LET later == {j \in (i + 1)..Len(d) : IsTable(d[j])}
    IN IF later = {} THEN 0 ELSE CHOOSE j \in later : \A k \in later : j <= k

\* [h.text.strip().lower() for h in t.find_all('th')]
AllHeaderTexts(t) ==
    LET ths == t.head \o t.body_th
    IN [i \in 1..Len(ths) |-> Lower(Strip(ths[i]))]

IsTitleHeader(h) == Contains(h, KwTitle) \/ Contains(h, KwFilm)

IsGrossHeader(h) ==
    Contains(h, KwBoxOffice) \/ Contains(h, KwGross) \/ Contains(h, KwWorldwide)

\* the header test of the table scan
MutRelevantTable(t) ==
    \E i \in 1..Len(AllHeaderTexts(t)) :
        IsTitleHeader(AllHeaderTexts(t)[i]) \/ IsGrossHeader(AllHeaderTexts(t)[i])

RelevantTable(t) ==
    LET hs == AllHeaderTexts(t)
    IN /\ \E i \in 1..Len(hs) : IsTitleHeader(hs[i])
       /\ \E i \in 1..Len(hs) : IsGrossHeader(hs[i])

-----------------------------------------------------------------------------
(* parse_html_content: table selection *)

FindTables ==
    /\ pc = "start"
    /\ LET wiki == WikiTables(doc)
           found == IF wiki # <<>> THEN wiki ELSE AllTables(doc)
       IN /\ tables' = found
          /\ pc' = IF found = <<>> THEN "returned" ELSE "section"
    /\ UNCHANGED <<otherVars, doc, table, colVars, rowVars, outVars>>

PrioritizeSection ==
    /\ pc = "section"
    /\ LET h == SectionHeading(doc)
           t == IF h = 0 THEN 0 ELSE FindNextTable(doc, h)
       IN tables' = IF t # 0 THEN <<t>> \o tables ELSE tables
    /\ pc' = "scan"
    /\ UNCHANGED <<otherVars, doc, table, colVars, rowVars, outVars>>

ScanTables ==
    /\ pc = "scan"
    /\ LET hit == First([i \in 1..Len(tables) |-> RelevantTable(doc[tables[i]])])
       IN table' = IF hit # 0 THEN tables[hit]
                   ELSE IF tables # <<>> THEN tables[1] ELSE 0
    /\ pc' = IF table' = 0 THEN "returned" ELSE "resolve"
    /\ UNCHANGED <<otherVars, doc, tables, colVars, rowVars, outVars>>

-----------------------------------------------------------------------------
(* parse_html_content: column resolution (indices are Python's, from 0) *)

IsYearHeader(h) ==
    Contains(h, KwYear) \/ Contains(h, KwReleased) \/ Contains(h, KwRelease)

\* "YEN" and "EURO" stand for the one-character glyphs of the source
IsCurrencyHeader(h) ==
    Contains(h, <<"$">>) \/ Contains(h, <<"YEN">>) \/ Contains(h, <<"EURO">>)

\* the header of the title scan, without the 'film' alternative
MutTitleIdx(hs) ==
    LET hit == First([i \in 1..Len(hs) |-> Contains(hs[i], KwTitle)])
    IN IF hit # 0 THEN hit - 1 ELSE IF Len(hs) > 1 THEN 1 ELSE 0

TitleIdx(hs) ==
    LET hit == First([i \in 1..Len(hs) |-> IsTitleHeader(hs[i])])
    IN IF hit # 0 THEN hit - 1 ELSE IF Len(hs) > 1 THEN 1 ELSE 0

\* the year scan with the fallback of the title scan
MutYearIdx(hs) ==
    LET hit == First([i \in 1..Len(hs) |-> IsYearHeader(hs[i])])
    IN IF hit # 0 THEN hit - 1 ELSE IF Len(hs) > 1 THEN 1 ELSE 0

\* year_idx stays -1 when the scan finds no header
YearIdx(hs) == First([i \in 1..Len(hs) |-> IsYearHeader(hs[i])]) - 1

\* one scan for the first header with a keyword or a currency glyph
MutBoxOfficeIdx(hs) ==
    LET hit == First([i \in 1..Len(hs) |->
                        IsGrossHeader(hs[i]) \/ IsCurrencyHeader(hs[i])])
    IN IF hit # 0 THEN hit - 1
       ELSE IF Len(hs) > 2 THEN 2 ELSE Len(hs) - 1

\* the keyword scan, then the currency scan, then the default
BoxOfficeIdx(hs) ==
    LET kw == First([i \in 1..Len(hs) |-> IsGrossHeader(hs[i])])
        cur == First([i \in 1..Len(hs) |-> IsCurrencyHeader(hs[i])])
    IN IF kw # 0 THEN kw - 1
       ELSE IF cur # 0 THEN cur - 1
       ELSE IF Len(hs) > 2 THEN 2 ELSE Len(hs) - 1

\* [th.text.strip().lower() for th in header_row.find_all('th')]
HeaderRowTexts(t) == [i \in 1..Len(t.head) |-> Lower(Strip(t.head[i]))]

ResolveColumns ==
    /\ pc = "resolve"
    /\ IF ~doc[table].tr
       THEN \* table.find('tr') is None: header_row.find_all raises AttributeError
            /\ pc' = "raised"
            /\ UNCHANGED colVars
       ELSE LET hs == HeaderRowTexts(doc[table])
            IN /\ headers' = hs
               /\ title_idx' = TitleIdx(hs)
               /\ year_idx' = YearIdx(hs)
               /\ box_office_idx' = BoxOfficeIdx(hs)
               /\ pc' = "rows"
    /\ UNCHANGED <<otherVars, selVars, rowVars, outVars>>

-----------------------------------------------------------------------------
(* Regular expressions of the row extractor *)

Letters ==
    {"a","b","c","d","e","f","g","h","i","j","k","l","m","n","o","p","q","r","s",
     "t","u","v","w","x","y","z","A","B","C","D","E","F","G","H","I","J","K","L",
     "M","N","O","P","Q","R","S","T","U","V","W","X","Y","Z"}

\* \w, for the word boundaries \b
IsWordChar(c) == IsDigit(c) \/ c \in Letters \/ c = "_"

\* number of digits at the front of s[i..]
RECURSIVE DigitRun(_, _)
DigitRun(s, i) ==
    IF i <= Len(s) /\ IsDigit(s[i]) THEN 1 + DigitRun(s, i + 1) ELSE 0

\* length of the match of \[\d+\] at position i, 0 when it does not match there
FootnoteAt(s, i) ==
    IF i <= Len(s) /\ s[i] = "["
    THEN LET n == DigitRun(s, i + 1)
         IN IF n >= 1 /\ i + n + 1 <= Len(s) /\ s[i + n + 1] = "]" THEN n + 2 ELSE 0
    ELSE 0

\* one pass that drops the text between two brackets whatever it is
RECURSIVE MutRemoveFrom(_, _)
MutRemoveFrom(s, i) ==
    IF i > Len(s) THEN <<>>
    ELSE LET close == {j \in (i + 1)..Len(s) : s[j] = "]"}
         IN IF s[i] = "[" /\ close # {}
            THEN MutRemoveFrom(s, 1 + CHOOSE j \in close : \A k \in close : j <= k)
            ELSE <<s[i]>> \o MutRemoveFrom(s, i + 1)

\* re.sub(r'\[\d+\]', '', s) from position i on: one left-to-right pass over
\* the non-overlapping matches
RECURSIVE RemoveFootnotesFrom(_, _)
RemoveFootnotesFrom(s, i) ==
    LET hits == {j \in i..Len(s) : FootnoteAt(s, j) > 0}
    IN IF hits = {} THEN SubSeq(s, i, Len(s))
       ELSE LET j == CHOOSE h \in hits : \A k \in hits : h <= k
            IN SubSeq(s, i, j - 1) \o RemoveFootnotesFrom(s, j + FootnoteAt(s, j))

RemoveFootnotes(s) == RemoveFootnotesFrom(s, 1)

\* whether \(\d{4}\) matches at position i
ParenYearAt(s, i) ==
    /\ i + 5 <= Len(s)
    /\ s[i] = "("
    /\ \A k \in 1..4 : IsDigit(s[i + k])
    /\ s[i + 5] = ")"

\* number of whitespace characters at the front of s[i..]
RECURSIVE SpaceRun(_, _)
SpaceRun(s, i) ==
    IF i <= Len(s) /\ IsSpace(s[i]) THEN 1 + SpaceRun(s, i + 1) ELSE 0

\* re.sub(r'\s*\(\d{4}\)', '', s) from position i on
RECURSIVE RemoveParenYearsFrom(_, _)
RemoveParenYearsFrom(s, i) ==
    IF i > Len(s) THEN <<>>
    ELSE LET w == SpaceRun(s, i)
         IN IF ParenYearAt(s, i + w) THEN RemoveParenYearsFrom(s, i + w + 6)
            ELSE <<s[i]>> \o RemoveParenYearsFrom(s, i + 1)

RemoveParenYears(s) == RemoveParenYearsFrom(s, 1)

DigitVal(c) ==
    CASE c = "0" -> 0 [] c = "1" -> 1 [] c = "2" -> 2 [] c = "3" -> 3 [] c = "4" -> 4
      [] c = "5" -> 5 [] c = "6" -> 6 [] c = "7" -> 7 [] c = "8" -> 8 [] c = "9" -> 9

\* int() of the four digits s[i..i+3]
Int4(s, i) ==
    1000 * DigitVal(s[i]) + 100 * DigitVal(s[i + 1]) + 10 * DigitVal(s[i + 2])
    + DigitVal(s[i + 3])

\* re.search(r'\((\d{4})\)', s): position of the first match, 0 = None
ParenYearPos(s) ==
    LET hits == {i \in 1..Len(s) : ParenYearAt(s, i)}
    IN IF hits = {} THEN 0 ELSE CHOOSE i \in hits : \A j \in hits : i <= j

\* the year token as any four digits between word boundaries
MutYearTokenAt(s, i) ==
    /\ i + 3 <= Len(s)
    /\ \A k \in 0..3 : IsDigit(s[i + k])
    /\ i = 1 \/ ~IsWordChar(s[i - 1])
    /\ i + 3 = Len(s) \/ ~IsWordChar(s[i + 4])

\* whether \b(19\d{2}|20\d{2})\b matches at position i
YearTokenAt(s, i) ==
    /\ i + 3 <= Len(s)
    /\ \/ s[i] = "1" /\ s[i + 1] = "9"
       \/ s[i] = "2" /\ s[i + 1] = "0"
    /\ IsDigit(s[i + 2]) /\ IsDigit(s[i + 3])
    /\ i = 1 \/ ~IsWordChar(s[i - 1])
    /\ i + 3 = Len(s) \/ ~IsWordChar(s[i + 4])

\* re.search(r'\b(19\d{2}|20\d{2})\b', s): position of the first match, 0 = None
YearTokenPos(s) ==
    LET hits == {i \in 1..Len(s) : YearTokenAt(s, i)}
    IN IF hits = {} THEN 0 ELSE CHOOSE i \in hits : \A j \in hits : i <= j

-----------------------------------------------------------------------------
(* Box-office value.  A float is kept as an exact decimal: ip are the digits *)
(* of its integer part without leading zeros (<<>> is 0), fp the digits of  *)
(* its fraction without trailing zeros.                                     *)

RECURSIVE DropLeadingZeros(_)
DropLeadingZeros(s) ==
    IF s # <<>> /\ Head(s) = "0" THEN DropLeadingZeros(Tail(s)) ELSE s

RECURSIVE DropTrailingZeros(_)
DropTrailingZeros(s) ==
    IF s # <<>> /\ s[Len(s)] = "0"
    THEN DropTrailingZeros(SubSeq(s, 1, Len(s) - 1)) ELSE s

Dec(ip, fp) == [ip |-> DropLeadingZeros(ip), fp |-> DropTrailingZeros(fp)]

Zero == Dec(<<>>, <<>>)

\* re.sub(r'[^\d.]', '', s)
RECURSIVE KeepDigitsAndDots(_)
KeepDigitsAndDots(s) ==
    IF s = <<>> THEN <<>>
    ELSE IF Len(s) = 1
         THEN IF IsDigit(s[1]) \/ s[1] = "." THEN s ELSE <<>>
         ELSE LET h == Len(s) \div 2
              IN KeepDigitsAndDots(SubSeq(s, 1, h))
                   \o KeepDigitsAndDots(SubSeq(s, h + 1, Len(s)))

DotCount(s) == Cardinality({i \in 1..Len(s) : s[i] = "."})

\* float(s) of a text of digits and dots: ValueError unless there is at most
\* one dot and at least one digit
FloatOk(s) == DotCount(s) <= 1 /\ Len(s) > DotCount(s)

Float(s) ==
    IF DotCount(s) = 0 THEN Dec(s, <<>>)
    ELSE LET d == CHOOSE i \in 1..Len(s) : s[i] = "."
         IN Dec(SubSeq(s, 1, d - 1), SubSeq(s, d + 1, Len(s)))

\* a > b for digit texts of the same length
RECURSIVE DigitsGreater(_, _)
DigitsGreater(a, b) ==
    IF a = <<>> THEN FALSE
    ELSE IF DigitVal(Head(a)) # DigitVal(Head(b))
         THEN DigitVal(Head(a)) > DigitVal(Head(b))
         ELSE DigitsGreater(Tail(a), Tail(b))

FiveBillion == <<"5","0","0","0","0","0","0","0","0","0">>

\* box_office > 5000000000
ExceedsFiveBillion(v) ==
    \/ Len(v.ip) > Len(FiveBillion)
    \/ /\ Len(v.ip) = Len(FiveBillion)
       /\ DigitsGreater(v.ip, FiveBillion) \/ (v.ip = FiveBillion /\ v.fp # <<>>)

\* len(str(int(box_office)))
Magnitude(v) == IF v.ip = <<>> THEN 1 ELSE Len(v.ip)

\* v / 10 ** k, for k below the number of integer digits
DivPow10(v, k) ==
    Dec(SubSeq(v.ip, 1, Len(v.ip) - k),
        SubSeq(v.ip, Len(v.ip) - k + 1, Len(v.ip)) \o v.fp)

\* the repair with the division by 10 ** (magnitude - 9)
MutRepair(v) ==
    IF ExceedsFiveBillion(v) /\ Magnitude(v) > 10
    THEN DivPow10(v, Magnitude(v) - 9)
    ELSE v

\* "Fix extremely large values"
Repair(v) ==
    IF ExceedsFiveBillion(v)
    THEN IF Magnitude(v) > 10 THEN DivPow10(v, Magnitude(v) - 10) ELSE v
    ELSE v

\* the least decimal integer that float() rounds to inf: 2^1024 - 2^970
FloatOverflow ==
    <<
      "1","7","9","7","6","9","3","1","3","4","8","6","2","3","1","5","8","0","7",
      "9","3","7","2","8","9","7","1","4","0","5","3","0","3","4","1","5","0","7",
      "9","9","3","4","1","3","2","7","1","0","0","3","7","8","2","6","9","3","6",
      "1","7","3","7","7","8","9","8","0","4","4","4","9","6","8","2","9","2","7",
      "6","4","7","5","0","9","4","6","6","4","9","0","1","7","9","7","7","5","8",
      "7","2","0","7","0","9","6","3","3","0","2","8","6","4","1","6","6","9","2",
      "8","8","7","9","1","0","9","4","6","5","5","5","5","4","7","8","5","1","9",
      "4","0","4","0","2","6","3","0","6","5","7","4","8","8","6","7","1","5","0",
      "5","8","2","0","6","8","1","9","0","8","9","0","2","0","0","0","7","0","8",
      "3","8","3","6","7","6","2","7","3","8","5","4","8","4","5","8","1","7","7",
      "1","1","5","3","1","7","6","4","4","7","5","7","3","0","2","7","0","0","6",
      "9","8","5","5","5","7","1","3","6","6","9","5","9","6","2","2","8","4","2",
      "9","1","4","8","1","9","8","6","0","8","3","4","9","3","6","4","7","5","2",
      "9","2","7","1","9","0","7","4","1","6","8","4","4","4","3","6","5","5","1",
      "0","7","0","4","3","4","2","7","1","1","5","5","9","6","9","9","5","0","8",
      "0","9","3","0","4","2","8","8","0","1","7","7","9","0","4","1","7","4","4",
      "9","7","7","9","2"
    >>

\* float(s) is inf: the value is FloatOverflow or more
IsInf(v) ==
    \/ Len(v.ip) > Len(FloatOverflow)
    \/ /\ Len(v.ip) = Len(FloatOverflow)
       /\ DigitsGreater(v.ip, FloatOverflow) \/ v.ip = FloatOverflow

\* int(box_office) raises OverflowError, which `except ValueError` does not
\* catch: the cell text parses as inf, and inf > 5000000000
BoxOfficeRaises(text) ==
    LET cleaned == KeepDigitsAndDots(RemoveFootnotes(Strip(text)))
    IN cleaned # <<>> /\ FloatOk(cleaned) /\ IsInf(Float(cleaned))

\* the box-office value of a cell text whose value is finite
BoxOffice(text) ==
    LET cleaned == KeepDigitsAndDots(RemoveFootnotes(Strip(text)))
    IN IF cleaned = <<>> THEN Zero
       ELSE IF ~FloatOk(cleaned) THEN Zero
       ELSE Repair(Float(cleaned))

ParseBoxOffice ==
    /\ pc = "box"
    /\ result' = BoxOffice(arg)
    /\ pc' = "boxed"
    /\ UNCHANGED <<otherVars, selVars, colVars, rowVars, enrichVars, arg>>

-----------------------------------------------------------------------------
(* parse_html_content: one data row *)

UNKNOWN == <<"U","n","k","n","o","w","n">>

\* a <td>/<th>: its text, and the text and href of its first <a> when it has one
Cell(text, has_link, link_text, href) ==
    [text |-> text, has_link |-> has_link, link_text |-> link_text, href |-> href]

\* cells[i] with Python's indexing: a negative index counts from the end
PyIndex(s, i) == IF i >= 0 THEN s[i + 1] ELSE s[Len(s) + i + 1]

Max(a, b) == IF a >= b THEN a ELSE b

\* the test without the box-office index
MutRowAccepted(cs, ti, bi) == Len(cs) > ti

\* a row is processed unless len(cells) <= max(title_idx, box_office_idx)
RowAccepted(cs, ti, bi) == ~(Len(cs) <= Max(ti, bi))

\* title and wiki link of the title cell, footnotes removed
RowTitle(c) ==
    Strip(RemoveFootnotes(IF c.has_link THEN Strip(c.link_text) ELSE Strip(c.text)))

RowLink(c) == IF c.has_link THEN c.href ELSE ""

\* the year resolution that falls back to the title when the year cell has no year
MutRowYear(cs, yi, title) ==
    LET col == IF yi # -1 /\ yi < Len(cs) THEN YearTokenPos(Strip(PyIndex(cs, yi).text))
               ELSE 0
        q == ParenYearPos(title)
    IN IF col # 0
       THEN [year |-> Int4(Strip(PyIndex(cs, yi).text), col), title |-> title]
       ELSE IF q # 0
       THEN [year |-> Int4(title, q + 1), title |-> Strip(RemoveParenYears(title))]
       ELSE [year |-> 0, title |-> title]

\* "Extract year": the year and the title it leaves
RowYear(cs, yi, title) ==
    IF yi # -1 /\ yi < Len(cs)
    THEN LET year_text == Strip(PyIndex(cs, yi).text)
             p == YearTokenPos(year_text)
         IN [year |-> IF p # 0 THEN Int4(year_text, p) ELSE 0, title |-> title]
    ELSE LET q == ParenYearPos(title)
         IN IF q # 0
            THEN [year |-> Int4(title, q + 1), title |-> Strip(RemoveParenYears(title))]
            ELSE [year |-> 0, title |-> title]

\* film_data of an accepted row
RowRecord(cs, ti, yi, bi) ==
    LET yt == RowYear(cs, yi, RowTitle(PyIndex(cs, ti)))
    IN [title |-> yt.title,
        release_year |-> yt.year,
        box_office |-> BoxOffice(PyIndex(cs, bi).text),
        wiki_link |-> RowLink(PyIndex(cs, ti)),
        director |-> UNKNOWN,
        country |-> UNKNOWN]

\* the try block of an accepted row raises: `except Exception: continue`
RowRaises(cs, bi) == BoxOfficeRaises(PyIndex(cs, bi).text)

\* one iteration of `for row in rows`, on a row with the cells cs
ExtractRowOf(cs) ==
    /\ cells' = cs
    /\ nrows' = nrows + 1
    /\ IF RowAccepted(cs, title_idx, box_office_idx) /\ ~RowRaises(cs, box_office_idx)
       THEN /\ heap' = Append(heap, RowRecord(cs, title_idx, year_idx, box_office_idx))
            /\ films_data' = Append(films_data, Len(heap) + 1)
       ELSE UNCHANGED <<heap, films_data>>

TxtAvatar == <<"A"," ","(","2","0","0","9",")","[","1","]">>
TxtAvatarLink == <<"A"," ","(","2","0","0","9",")">>
TxtFootnote == <<" ","[","1","]">>
TxtFarYear == <<"$","2","0","9","9","[","2","]">>
TxtParenOnly == <<"(","3","0","0","0",")">>

\* the cells data rows are made of
RowCells ==
    {Cell(TxtAvatar, TRUE, TxtAvatarLink, "/wiki/A"),
     Cell(TxtFootnote, FALSE, <<>>, ""),
     Cell(TxtFarYear, FALSE, <<>>, ""),
     Cell(TxtParenOnly, FALSE, <<>>, ""),
     Cell(<<>>, TRUE, <<>>, "")}

RowInputs == SeqsUpTo(RowCells, MaxCells)

\* the loop takes the next row of the table, one of the rows of inputs, while
\* fewer than max rows have been consumed
ExtractRowFrom(inputs, max) ==
    /\ pc = "rows"
    /\ nrows < max
    /\ \E cs \in inputs : ExtractRowOf(cs)
    /\ pc' = "rows"
    /\ UNCHANGED <<otherVars, selVars, colVars, outVars>>

ExtractRow == ExtractRowFrom(RowInputs, MaxRows)

\* the data rows of a table of several rows: without a cell, with the title
\* cell alone, with two and with three cells, and with a revenue text of 310
\* digits
TableRows ==
    {<<>>,
     <<Cell(TxtAvatar, TRUE, TxtAvatarLink, "/wiki/A")>>,
     <<Cell(TxtParenOnly, FALSE, <<>>, ""), Cell(TxtFarYear, FALSE, <<>>, "")>>,
     <<Cell(TxtFootnote, FALSE, <<>>, ""), Cell(TxtAvatar, TRUE, TxtAvatarLink, "/wiki/A"),
       Cell(TxtFarYear, FALSE, <<>>, "")>>,
     <<Cell(TxtAvatar, TRUE, TxtAvatarLink, "/wiki/A"),
       Cell([i \in 1..(Len(FloatOverflow) + 1) |-> "9"], FALSE, <<>>, ""),
       Cell([i \in 1..(Len(FloatOverflow) + 1) |-> "9"], FALSE, <<>>, "")>>}

ExtractTableRow == ExtractRowFrom(TableRows, MaxTableRows)

\* the table has no further row: return films_data
ReturnFilms ==
    /\ pc = "rows"
    /\ pc' = "returned"
    /\ UNCHANGED <<otherVars, selVars, colVars, rowVars, outVars>>

-----------------------------------------------------------------------------
(* get_film_details: the value of an info-box cell *)

\* whether \band\b matches at position i
AndAt(s, i) ==
    /\ i + 2 <= Len(s)
    /\ s[i] = "a" /\ s[i + 1] = "n" /\ s[i + 2] = "d"
    /\ i = 1 \/ ~IsWordChar(s[i - 1])
    /\ i + 2 = Len(s) \/ ~IsWordChar(s[i + 3])

\* whether ,|\band\b|;|\| matches at position i
SeparatorAt(s, i) == s[i] \in {",", ";", "|"} \/ AndAt(s, i)

\* re.split(r',|\band\b|;|\|', s, maxsplit=1)[0]
FirstPart(s) ==
    LET hits == {i \in 1..Len(s) : SeparatorAt(s, i)}
    IN IF hits = {} THEN s
       ELSE SubSeq(s, 1, (CHOOSE i \in hits : \A j \in hits : i <= j) - 1)

\* re.sub(r'\s+', ' ', s)
RECURSIVE CollapseSpaces(_)
CollapseSpaces(s) ==
    IF s = <<>> THEN <<>>
    ELSE IF IsSpace(Head(s))
         THEN <<" ">> \o CollapseSpaces(SubSeq(s, 1 + SpaceRun(s, 1), Len(s)))
         ELSE <<Head(s)>> \o CollapseSpaces(Tail(s))

\* the value with an empty result replaced by the default
MutDetailValue(td_text) ==
    LET v == Strip(FirstPart(RemoveFootnotes(Strip(td_text))))
    IN IF v = <<>> THEN UNKNOWN ELSE v

\* details["director"] / details["country"] taken from the text of a <td>
DetailValue(td_text) == Strip(FirstPart(RemoveFootnotes(Strip(td_text))))

\* "Clean up extracted text"
CleanUp(v) == IF v # UNKNOWN THEN Strip(CollapseSpaces(v)) ELSE v

-----------------------------------------------------------------------------
(* The cleaning of one cell text, as a title and as an info-box value *)

\* the title of a data row made of the one cell, in a table without year column
CleanTitle ==
    /\ pc = "clean"
    /\ result' = RowRecord(<<Cell(arg, FALSE, <<>>, "")>>, 0, -1, 0).title
    /\ pc' = "title"
    /\ UNCHANGED <<otherVars, selVars, colVars, rowVars, enrichVars, arg>>

\* the director or country of an info-box row whose <td> has the text
CleanDetail ==
    /\ pc = "clean"
    /\ result' = CleanUp(DetailValue(arg))
    /\ pc' = "detail"
    /\ UNCHANGED <<otherVars, selVars, colVars, rowVars, enrichVars, arg>>

-----------------------------------------------------------------------------
(* get_film_details: the detail page *)

max_retries == 3
base_timeout == 10

\* a <th> row of the info box: whether a <td> follows it, and that cell's text
InfoRow(td, text) == [td |-> td, text |-> text]

\* a fetched page: whether it has an info box, and the director and country rows
Page(infobox, director_rows, country_rows) ==
    [infobox |-> infobox, director_rows |-> director_rows,
     country_rows |-> country_rows]

\* for row in rows: if row and row.find_next('td'): ...; break
RowsValue(rows) ==
    LET hit == First([i \in 1..Len(rows) |-> rows[i].td])
    IN IF hit = 0 THEN UNKNOWN ELSE DetailValue(rows[hit].text)

\* the details dict of a page answered with status 200
PageDetails(page) ==
    [director |-> CleanUp(IF page.infobox THEN RowsValue(page.director_rows)
                          ELSE UNKNOWN),
     country |-> CleanUp(IF page.infobox THEN RowsValue(page.country_rows)
                         ELSE UNKNOWN)]

TxtCameron == <<" ","J"," "," ","C","[","1","]"," ","a","n","d"," ","K">>
TxtCitation == <<" ","[","1","]">>
TxtUS == <<"U","S">>
TxtCommaUK == <<","," ","U","K">>

Pages ==
    {Page(FALSE, <<>>, <<>>),
     Page(TRUE, <<InfoRow(TRUE, TxtCameron)>>, <<>>),
     Page(TRUE, <<InfoRow(TRUE, TxtCitation)>>, <<InfoRow(TRUE, TxtUS)>>),
     Page(TRUE, <<InfoRow(FALSE, <<>>)>>, <<InfoRow(TRUE, TxtCommaUK)>>)}

-----------------------------------------------------------------------------
(* enrich_film_data.  Delays are integers in units of 1 / DelayScale seconds, *)
(* random.random() is k / JitterSteps for k in 0..JitterSteps-1.             *)

BaseDelay == 1
MaxDelay == 10
JitterTenths == 3
MinDelayTenths == 5

DelayScale == 10 * JitterSteps

RECURSIVE Pow2(_)
Pow2(n) == IF n = 0 THEN 1 ELSE 2 * Pow2(n - 1)

Min(a, b) == IF a <= b THEN a ELSE b

\* the scaling without its cap
MutCurrentDelay(n) == BaseDelay * Pow2(n) * DelayScale

\* current_delay for n consecutive failures
CurrentDelay(n) ==
    IF n > 0 THEN Min(BaseDelay * Pow2(n), MaxDelay) * DelayScale
    ELSE BaseDelay * DelayScale

\* jitter = current_delay * 0.3 * (random.random() * 2 - 1)
Jitter(cd, k) == (cd \div DelayScale) * JitterTenths * (2 * k - JitterSteps)

\* actual_delay = max(0.5, current_delay + jitter)
ActualDelay(cd, k) == Max(MinDelayTenths * JitterSteps, cd + Jitter(cd, k))

\* the list that takes the place of the input list itself
MutEnrichedIds(fd, h) == fd

\* [dict(film) for film in films_data]: the ids of the new dicts
EnrichedIds(fd, h) == [k \in 1..Len(fd) |-> Len(h) + k]

\* the counter reset by a success, as the comment of the source has it
MutFailures(n, d) ==
    IF d.director = UNKNOWN /\ d.country = UNKNOWN THEN n + 1 ELSE 0

\* "Track failures/successes to adjust delay dynamically": consecutive_failures
\* after a call that returned the details d
Failures(n, d) ==
    IF d.director = UNKNOWN /\ d.country = UNKNOWN
    THEN n + 1
    ELSE IF n > 0 THEN Max(0, n - 1) ELSE n

\* the timeout that stays at base_timeout
MutCurrentTimeout(a) == base_timeout

\* current_timeout = base_timeout * (2 ** attempt)
CurrentTimeout(a) == base_timeout * Pow2(a)

\* the sleep of a failed attempt: wait_time = 2 ** attempt unless it was the
\* last attempt, 0 for no sleep
WaitTime(a) == IF a < max_retries - 1 THEN Pow2(a) ELSE 0

\* the loop with one more round
MutLoopRuns(a) == a <= max_retries

\* for attempt in range(max_retries): whether the loop has a round for attempt a
LoopRuns(a) == a < max_retries

\* the loop that leaves out every other film
MutNextIndex(i) == i + 2

\* for i, film in enumerate(enriched_data): the position after position i
NextIndex(i) == i + 1

\* how an attempt fails: requests.exceptions.Timeout, another exception, a
\* status code other than 200
FailureKinds == {"timeout", "error", "status"}

EnrichStart ==
    /\ pc = "enrich"
    /\ enriched_data' = EnrichedIds(films_data, heap)
    /\ heap' = heap \o [k \in 1..Len(films_data) |-> heap[films_data[k]]]
    /\ consecutive_failures' = 0
    /\ idx' = 1
    /\ pc' = "loop"
    /\ UNCHANGED <<otherVars, selVars, colVars, nrows, cells, films_data, fnVars, current_delay,
                   actual_delay, attempt, details, calls>>

\* a film without wiki_link: nothing is done for it
SkipFilm ==
    /\ pc = "loop"
    /\ idx <= Len(enriched_data)
    /\ heap[enriched_data[idx]].wiki_link = ""
    /\ idx' = NextIndex(idx)
    /\ UNCHANGED <<otherVars, pc, selVars, colVars, rowVars, fnVars, enriched_data,
                   consecutive_failures, current_delay, actual_delay, attempt,
                   details, calls>>

\* the adaptive delay is computed and slept, get_film_details is entered
Wait ==
    /\ pc = "loop"
    /\ idx <= Len(enriched_data)
    /\ heap[enriched_data[idx]].wiki_link # ""
    /\ \E k \in 0..(JitterSteps - 1) :
          /\ current_delay' = CurrentDelay(consecutive_failures)
          /\ actual_delay' = ActualDelay(current_delay', k)
    /\ attempt' = 0
    /\ details' = [director |-> UNKNOWN, country |-> UNKNOWN]
    /\ log' = <<>>
    /\ pc' = "fetch"
    /\ UNCHANGED <<mainVars, nbVars, selVars, colVars, rowVars, fnVars, enriched_data,
                   idx, consecutive_failures, calls>>

\* an attempt that times out, fails in transport or is answered with another
\* status than 200
FetchFail ==
    /\ pc = "fetch"
    /\ LoopRuns(attempt)
    /\ \E kind \in FailureKinds :
          log' = Append(log, [timeout |-> CurrentTimeout(attempt), outcome |-> kind,
                              wait |-> WaitTime(attempt)])
    /\ attempt' = attempt + 1
    /\ pc' = IF LoopRuns(attempt + 1) THEN "fetch" ELSE "apply"
    /\ UNCHANGED <<mainVars, nbVars, selVars, colVars, rowVars, fnVars, enriched_data,
                   idx, consecutive_failures, current_delay, actual_delay, details,
                   calls>>

\* an attempt answered with status 200: the page is parsed, the retry loop left
FetchOk ==
    /\ pc = "fetch"
    /\ LoopRuns(attempt)
    /\ \E page \in Pages : details' = PageDetails(page)
    /\ log' = Append(log, [timeout |-> CurrentTimeout(attempt), outcome |-> "200",
                           wait |-> 0])
    /\ pc' = "apply"
    /\ UNCHANGED <<mainVars, nbVars, selVars, colVars, rowVars, fnVars, enriched_data,
                   idx, consecutive_failures, current_delay, actual_delay, attempt,
                   calls>>

\* get_film_details has returned: the counter and the film are updated
Apply ==
    /\ pc = "apply"
    /\ consecutive_failures' = Failures(consecutive_failures, details)
    /\ heap' = [heap EXCEPT ![enriched_data[idx]].director = details.director,
                            ![enriched_data[idx]].country = details.country]
    /\ calls' = Append(calls, [pos |-> idx, details |-> details,
                               attempts |-> Len(log)])
    /\ log' = <<>>
    /\ idx' = NextIndex(idx)
    /\ pc' = "loop"
    /\ UNCHANGED <<mainVars, nbVars, selVars, colVars, nrows, cells, films_data, fnVars,
                   enriched_data, current_delay, actual_delay, attempt, details>>

EnrichReturn ==
    /\ pc = "loop"
    /\ idx > Len(enriched_data)
    /\ pc' = "enriched"
    /\ UNCHANGED <<otherVars, selVars, colVars, rowVars, fnVars, enrichVars>>

-----------------------------------------------------------------------------
(* main, create_database and export_to_json.  Every run of main is a new    *)
(* process: what outlives a run is the database file and the JSON file.     *)

\* the columns create_database inserts for a record
DbRow(film) ==
    [title |-> film.title, release_year |-> film.release_year,
     director |-> film.director, box_office |-> film.box_office,
     country |-> film.country]

\* the rows of the films table after DELETE FROM films and the inserts
DbRows(ids, h) == [k \in 1..Len(ids) |-> DbRow(h[ids[k]])]

\* the test that never stops the run
MutNoData(fd) == FALSE

\* `if not films_data`
NoData(fd) == fd = <<>>

\* the pages a run can be given: without any table, with a heading only, with
\* the films table, with a table that has no row
MainDocs ==
    {<<>>,
     <<Heading("h2", HdHighest)>>,
     <<Table(TRUE, TRUE, <<HRank, HTitle, HWorldwideGross>>, <<>>)>>,
     <<Table(FALSE, FALSE, <<>>, <<>>)>>}

\* the data rows of the films table: a linked film, a film without link, a
\* short row
MainRows ==
    {<<Cell(TxtFootnote, FALSE, <<>>, ""),
       Cell(TxtAvatar, TRUE, TxtAvatarLink, "/wiki/A"),
       Cell(TxtFarYear, FALSE, <<>>, "")>>,
     <<Cell(TxtFootnote, FALSE, <<>>, ""),
       Cell(TxtParenOnly, FALSE, <<>>, ""),
       Cell(TxtFarYear, FALSE, <<>>, "")>>,
     <<Cell(TxtFootnote, FALSE, <<>>, "")>>}

\* the locals of a run as a new process has them
MainLocals ==
    /\ tables' = <<>>
    /\ table' = 0
    /\ headers' = <<>>
    /\ title_idx' = -1
    /\ year_idx' = -1
    /\ box_office_idx' = -1
    /\ nrows' = 0
    /\ cells' = <<>>
    /\ heap' = <<>>
    /\ films_data' = <<>>
    /\ enriched_data' = <<>>
    /\ idx' = 0
    /\ consecutive_failures' = 0
    /\ current_delay' = 0
    /\ actual_delay' = 0
    /\ attempt' = 0
    /\ details' = [director |-> UNKNOWN, country |-> UNKNOWN]
    /\ calls' = <<>>
    /\ log' = <<>>

\* main is started, fetch_wikipedia_page returns the page, parse_html_content
\* is entered
MainStart ==
    /\ pc = "main"
    /\ runs < MaxRuns
    /\ runs' = runs + 1
    /\ \E d \in MainDocs : doc' = d
    /\ MainLocals
    /\ called' = <<"fetch_wikipedia_page", "parse_html_content">>
    /\ outcome' = "running"
    /\ pc' = "start"
    /\ UNCHANGED <<db, json_file, nbVars, fnVars>>

\* main is started, fetch_wikipedia_page raises: the run ends in main's handler
MainFetchFail ==
    /\ pc = "main"
    /\ runs < MaxRuns
    /\ runs' = runs + 1
    /\ doc' = <<>>
    /\ MainLocals
    /\ called' = <<"fetch_wikipedia_page">>
    /\ outcome' = "error"
    /\ pc' = "main"
    /\ UNCHANGED <<db, json_file, nbVars, fnVars>>

\* parse_html_content has returned nothing: "No film data extracted. Exiting."
MainNoData ==
    /\ pc = "returned"
    /\ NoData(films_data)
    /\ outcome' = "no_data"
    /\ pc' = "main"
    /\ UNCHANGED <<selVars, colVars, rowVars, outVars, db, json_file, runs, called,
                   nbVars, log>>

\* parse_html_content has returned records: enrich_film_data is called
MainEnrich ==
    /\ pc = "returned"
    /\ ~NoData(films_data)
    /\ called' = Append(called, "enrich_film_data")
    /\ pc' = "enrich"
    /\ UNCHANGED <<selVars, colVars, rowVars, outVars, db, json_file, runs, outcome,
                   nbVars, log>>

\* parse_html_content has raised: the run ends in main's handler
MainExcept ==
    /\ pc = "raised"
    /\ outcome' = "error"
    /\ pc' = "main"
    /\ UNCHANGED <<selVars, colVars, rowVars, outVars, db, json_file, runs, called,
                   nbVars, log>>

\* create_database commits: the table holds the rows of the records given
CreateDatabase ==
    /\ pc = "enriched"
    /\ db' = DbRows(enriched_data, heap)
    /\ called' = Append(called, "create_database")
    /\ pc' = "export"
    /\ UNCHANGED <<selVars, colVars, rowVars, outVars, json_file, runs, outcome,
                   nbVars, log>>

\* create_database raises before its commit: the connection is dropped with the
\* transaction open and the table is as it was; "Proceeding with JSON export only"
CreateDatabaseFail ==
    /\ pc = "enriched"
    /\ called' = Append(called, "create_database")
    /\ pc' = "export"
    /\ UNCHANGED <<selVars, colVars, rowVars, outVars, db, json_file, runs, outcome,
                   nbVars, log>>

\* export_to_json writes the rows of the films table
ExportToJson ==
    /\ pc = "export"
    /\ json_file' = db
    /\ called' = Append(called, "export_to_json")
    /\ outcome' = "completed"
    /\ pc' = "main"
    /\ UNCHANGED <<selVars, colVars, rowVars, outVars, db, runs, nbVars, log>>

ExtractMainRow == ExtractRowFrom(MainRows, MaxRows)

-----------------------------------------------------------------------------
(* The notebook variant: get_film_details and enrich_film_data of           *)
(* src/highest_grossing_films_notebook.py                                   *)

\* a <th> of the info box that names the director: whether its text has
\* 'Directed by' (and not only 'Director'), whether a <td> follows it, and
\* that cell's text
LabelRow(directed_by, td, text) ==
    [directed_by |-> directed_by, td |-> td, text |-> text]

\* a detail page: the info box (its director rows, country rows, the texts of
\* its links to a director and to a country) and the paragraph that follows
\* the first h2/h3 heading with 'director', <<>> when there is none
DetailPage(infobox, d_rows, c_rows, d_links, c_links, d_para) ==
    [infobox |-> infobox, director_rows |-> d_rows, country_rows |-> c_rows,
     director_links |-> d_links, country_links |-> c_links, director_para |-> d_para]

\* ', '.join(texts)
RECURSIVE Join(_)
Join(texts) ==
    IF texts = <<>> THEN <<>>
    ELSE IF Len(texts) = 1 THEN texts[1]
    ELSE texts[1] \o <<",", " ">> \o Join(Tail(texts))

\* [link.text.strip() for link in links if link.text.strip()]
RECURSIVE LinkTexts(_)
LinkTexts(links) ==
    IF links = <<>> THEN <<>>
    ELSE IF Strip(Head(links)) # <<>>
         THEN <<Strip(Head(links))>> \o LinkTexts(Tail(links))
         ELSE LinkTexts(Tail(links))

\* the same list without the texts that contain 'film'
RECURSIVE CountryLinkTexts(_)
CountryLinkTexts(links) ==
    IF links = <<>> THEN <<>>
    ELSE IF Strip(Head(links)) # <<>> /\ ~Contains(Lower(Head(links)), KwFilm)
         THEN <<Strip(Head(links))>> \o CountryLinkTexts(Tail(links))
         ELSE CountryLinkTexts(Tail(links))

\* the director with the country row read in its place
MutNbDirector(page) ==
    IF page.country_rows # <<>> /\ page.country_rows[1].td
    THEN Strip(page.country_rows[1].text)
    ELSE UNKNOWN

\* the director cascade: the first 'Directed by' row, the director links, the
\* paragraph after a 'director' heading
NbDirector(page) ==
    LET first == First([i \in 1..Len(page.director_rows) |->
                          page.director_rows[i].directed_by])
    IN IF first # 0 /\ page.director_rows[first].td
       THEN Strip(page.director_rows[first].text)
       ELSE IF LinkTexts(page.director_links) # <<>>
       THEN Join(LinkTexts(page.director_links))
       ELSE IF page.director_para # <<>>
       THEN Strip(page.director_para[1])
       ELSE UNKNOWN

\* the country cascade: the first country row, the country links
NbCountry(page) ==
    IF page.country_rows # <<>> /\ page.country_rows[1].td
    THEN Strip(page.country_rows[1].text)
    ELSE IF CountryLinkTexts(page.country_links) # <<>>
    THEN Join(CountryLinkTexts(page.country_links))
    ELSE UNKNOWN

\* "Clean up the extracted text"
NbCleanUp(v) == IF v # UNKNOWN THEN Strip(CollapseSpaces(RemoveFootnotes(v))) ELSE v

\* the details dict of a page answered with status 200
NbPageDetails(page) ==
    [director |-> NbCleanUp(IF page.infobox THEN NbDirector(page) ELSE UNKNOWN),
     country |-> NbCleanUp(IF page.infobox THEN NbCountry(page) ELSE UNKNOWN)]

\* films_data[:k]
PySlice(s, k) ==
    IF k >= 0 THEN SubSeq(s, 1, Min(k, Len(s))) ELSE SubSeq(s, 1, Max(0, Len(s) + k))

\* the list with the cap ignored
MutFilmsToEnrich(fd, mf) == fd

\* films_data if max_films is None else films_data[:max_films]
FilmsToEnrich(fd, mf) == IF mf = <<>> THEN fd ELSE PySlice(fd, mf[1])

TxtJC == <<"J"," ","C">>

\* the pages the enrichment loop is answered with
NbEnrichPages ==
    {DetailPage(FALSE, <<>>, <<>>, <<>>, <<>>, <<>>),
     DetailPage(TRUE, <<LabelRow(TRUE, TRUE, TxtJC)>>, <<>>, <<>>, <<>>, <<>>)}

NbEnrichStart ==
    /\ pc = "nb_enrich"
    /\ films_to_enrich' = FilmsToEnrich(films_data, max_films)
    /\ idx' = 1
    /\ pc' = "nb_loop"
    /\ UNCHANGED <<selVars, colVars, rowVars, fnVars, enriched_data,
                   consecutive_failures, current_delay, actual_delay, attempt,
                   details, calls, log, mainVars, max_films>>

\* "No Wikipedia link available"
NbSkipFilm ==
    /\ pc = "nb_loop"
    /\ idx <= Len(films_to_enrich)
    /\ heap[films_to_enrich[idx]].wiki_link = ""
    /\ idx' = idx + 1
    /\ UNCHANGED <<pc, selVars, colVars, rowVars, fnVars, enriched_data,
                   consecutive_failures, current_delay, actual_delay, attempt,
                   details, calls, log, mainVars, nbVars>>

\* one linked film: get_film_details (the request fails or raises and the
\* defaults are returned, or a page is answered), the film is written
NbFetch ==
    /\ pc = "nb_loop"
    /\ idx <= Len(films_to_enrich)
    /\ heap[films_to_enrich[idx]].wiki_link # ""
    /\ \/ details' = [director |-> UNKNOWN, country |-> UNKNOWN]
       \/ \E page \in NbEnrichPages : details' = NbPageDetails(page)
    /\ heap' = [heap EXCEPT ![films_to_enrich[idx]].director = details'.director,
                            ![films_to_enrich[idx]].country = details'.country]
    /\ calls' = Append(calls, [pos |-> idx, details |-> details', attempts |-> 1])
    /\ idx' = idx + 1
    /\ UNCHANGED <<pc, selVars, colVars, nrows, cells, films_data, arg, result,
                   enriched_data, consecutive_failures, current_delay, actual_delay,
                   attempt, log, mainVars, nbVars>>

\* return films_data
NbEnrichReturn ==
    /\ pc = "nb_loop"
    /\ idx > Len(films_to_enrich)
    /\ result' = films_data
    /\ pc' = "nb_enriched"
    /\ UNCHANGED <<selVars, colVars, rowVars, arg, enrichVars, log, mainVars, nbVars>>

-----------------------------------------------------------------------------
(* Detail extraction of both variants on one page answered with status 200 *)

\* data_extraction.get_film_details: the details of the page
GetDetails ==
    /\ pc = "page"
    /\ result' = PageDetails(arg)
    /\ pc' = "details"
    /\ UNCHANGED <<otherVars, selVars, colVars, rowVars, enrichVars, arg>>

\* the notebook's get_film_details: the details of the page
NbGetDetails ==
    /\ pc = "page"
    /\ result' = NbPageDetails(arg)
    /\ pc' = "nb_details"
    /\ UNCHANGED <<otherVars, selVars, colVars, rowVars, enrichVars, arg>>

TxtFilm == <<"F","i","l","m">>

\* detail pages: with and without info box; director rows labelled 'Directed
\* by' or 'Director', with and without a value cell; country rows; links to a
\* director and to a country; a 'director' heading with its paragraph
DetailPages ==
    {DetailPage(ib, dr, cr, dl, cl, dp) :
        ib \in BOOLEAN,
        dr \in {<<>>,
                <<LabelRow(TRUE, TRUE, TxtJC)>>,
                <<LabelRow(TRUE, TRUE, TxtCameron)>>,
                <<LabelRow(FALSE, TRUE, TxtJC)>>,
                <<LabelRow(TRUE, FALSE, <<>>), LabelRow(TRUE, TRUE, TxtJC)>>},
        cr \in {<<>>, <<LabelRow(FALSE, TRUE, TxtUS)>>,
                <<LabelRow(FALSE, TRUE, TxtCommaUK)>>},
        dl \in {<<>>, <<TxtJC>>},
        cl \in {<<>>, <<TxtFilm>>, <<TxtFilm, TxtUS>>},
        dp \in {<<>>, <<TxtJC>>}}

-----------------------------------------------------------------------------
(* Specifications *)

\* enrich_film_data has not been entered
\* main has not run, the notebook's enrich_film_data has not been entered
InitOtherIdle ==
    /\ log = <<>>
    /\ db = <<>>
    /\ json_file = <<>>
    /\ runs = 0
    /\ called = <<>>
    /\ outcome = "none"
    /\ max_films = <<>>
    /\ films_to_enrich = <<>>

InitEnrichIdle ==
    /\ enriched_data = <<>>
    /\ idx = 0
    /\ consecutive_failures = 0
    /\ current_delay = 0
    /\ actual_delay = 0
    /\ attempt = 0
    /\ details = [director |-> UNKNOWN, country |-> UNKNOWN]
    /\ calls = <<>>

\* no column resolved, no row consumed
InitRowsIdle ==
    /\ headers = <<>>
    /\ title_idx = -1
    /\ year_idx = -1
    /\ box_office_idx = -1
    /\ nrows = 0
    /\ cells = <<>>
    /\ heap = <<>>
    /\ films_data = <<>>
    /\ InitEnrichIdle
    /\ InitOtherIdle

InitCommon ==
    /\ tables = <<>>
    /\ table = 0
    /\ InitRowsIdle

\* parse_html_content on every document of Docs, up to the resolved columns
InitSelect ==
    /\ pc = "start"
    /\ doc \in Docs
    /\ InitCommon
    /\ arg = <<>>
    /\ result = <<>>

NextSelect == FindTables \/ PrioritizeSection \/ ScanTables \/ ResolveColumns

SpecSelect == InitSelect /\ [][NextSelect]_vars

\* column resolution on every header row of up to MaxHeaders header cells:
\* the state after a table with that header row has been selected
InitResolve ==
    /\ pc = "resolve"
    /\ \E hs \in SeqsUpTo(HeaderTexts, MaxHeaders) :
          doc = <<Table(TRUE, TRUE, hs, <<>>)>>
    /\ tables = <<1>>
    /\ table = 1
    /\ InitRowsIdle
    /\ arg = <<>>
    /\ result = <<>>

NextResolve == ResolveColumns

SpecResolve == InitResolve /\ [][NextResolve]_vars

\* digit texts of up to MaxDigits digits around the thresholds of the repair:
\* a leading digit, a run of one repeated digit, a last digit
Fill(c, n) == [i \in 1..n |-> c]

DigitTexts ==
    {<<a>> : a \in Digits}
    \cup {<<a>> \o Fill(f, k) \o <<z>> :
            a \in {"0", "1", "4", "5", "9"}, f \in {"0", "9"}, z \in {"0", "1", "9"},
            k \in 0..(MaxDigits - 2)}
    \cup {<<"2","9","2","3","7","0","6","0","2","6">>,
          <<"2","9","2","3","7","0","6","0","2","6","1","9">>}

NoisyBoxTexts ==
    {<<>>, <<".">>, <<"1",".","5">>, <<"1",".","2",".","3">>, <<"N","/","A">>,
     <<" ","$","2",",","9","2","3",",","7","0","6",",","0","2","6","[","1","]">>,
     <<"$","9","9","9","9","9","9","9","9","9","9","9",".","5","[","2","]">>}

BoxTexts == DigitTexts \cup NoisyBoxTexts

\* the box-office parse of one cell text
InitBox ==
    /\ pc = "box"
    /\ doc = <<>>
    /\ InitCommon
    /\ arg \in BoxTexts
    /\ result = <<>>

NextBox == ParseBoxOffice

SpecBox == InitBox /\ [][NextBox]_vars

\* header rows of the tables whose data rows are extracted: without and with a
\* year column, with one column in both roles, and without any header cell
RowHeaderLists ==
    {<<HRank, HTitle, HWorldwideGross>>, <<HTitle, HYear, HBoxOffice>>,
     <<HYear, HFilm>>, <<>>}

\* parse_html_content from the selected table on: columns, then up to MaxRows rows
InitRow ==
    /\ pc = "resolve"
    /\ \E hs \in RowHeaderLists : doc = <<Table(TRUE, TRUE, hs, <<>>)>>
    /\ tables = <<1>>
    /\ table = 1
    /\ InitRowsIdle
    /\ arg = <<>>
    /\ result = <<>>

NextRow == ResolveColumns \/ ExtractRow \/ ReturnFilms

SpecRow == InitRow /\ [][NextRow]_vars

\* header rows of the tables of several rows: the year column after the title
\* and revenue columns, and no year column
TableHeaderLists ==
    {<<HTitle, HBoxOffice, HYear>>, <<HRank, HTitle, HWorldwideGross>>}

\* parse_html_content from the selected table on: columns, then up to
\* MaxTableRows rows
InitRows ==
    /\ pc = "resolve"
    /\ \E hs \in TableHeaderLists : doc = <<Table(TRUE, TRUE, hs, <<>>)>>
    /\ tables = <<1>>
    /\ table = 1
    /\ InitRowsIdle
    /\ arg = <<>>
    /\ result = <<>>

NextRows == ResolveColumns \/ ExtractTableRow \/ ReturnFilms

SpecRows == InitRows /\ [][NextRows]_vars

\* cell texts of up to MaxText characters over brackets, a digit, a blank and a comma
CleanTexts == SeqsUpTo({"[", "]", "1", " ", ","}, MaxText)

InitClean ==
    /\ pc = "clean"
    /\ doc = <<>>
    /\ InitCommon
    /\ arg \in CleanTexts
    /\ result = <<>>

NextClean == CleanTitle \/ CleanDetail

SpecClean == InitClean /\ [][NextClean]_vars

TxtA == <<"A">>
TxtB == <<"B">>

\* a record as parse_html_content leaves it
Film(title, link) ==
    [title |-> title, release_year |-> 0, box_office |-> Zero, wiki_link |-> link,
     director |-> UNKNOWN, country |-> UNKNOWN]

Films == {Film(TxtA, "/wiki/A"), Film(TxtB, "")}

\* enrich_film_data on every list of up to MaxFilms extracted records
InitEnrich ==
    /\ pc = "enrich"
    /\ doc = <<>>
    /\ tables = <<>>
    /\ table = 0
    /\ headers = <<>>
    /\ title_idx = -1
    /\ year_idx = -1
    /\ box_office_idx = -1
    /\ nrows = 0
    /\ cells = <<>>
    /\ heap \in SeqsUpTo(Films, MaxFilms)
    /\ films_data = [k \in 1..Len(heap) |-> k]
    /\ arg = <<>>
    /\ result = <<>>
    /\ InitEnrichIdle
    /\ InitOtherIdle

NextEnrich ==
    EnrichStart \/ SkipFilm \/ Wait \/ FetchFail \/ FetchOk \/ Apply \/ EnrichReturn

SpecEnrich == InitEnrich /\ [][NextEnrich]_vars

\* the delay before a request, after n = 0..MaxFailures failed requests in a row:
\* the state of enrich_film_data in front of film n+1 of a list of n+1 linked
\* films whose n detail calls all came back with both defaults
InitDelay ==
    /\ pc = "loop"
    /\ doc = <<>>
    /\ tables = <<>>
    /\ table = 0
    /\ headers = <<>>
    /\ title_idx = -1
    /\ year_idx = -1
    /\ box_office_idx = -1
    /\ nrows = 0
    /\ cells = <<>>
    /\ arg = <<>>
    /\ result = <<>>
    /\ \E n \in 0..MaxFailures :
          /\ heap = [k \in 1..(2 * (n + 1)) |-> Film(TxtA, "/wiki/A")]
          /\ films_data = [k \in 1..(n + 1) |-> k]
          /\ enriched_data = [k \in 1..(n + 1) |-> n + 1 + k]
          /\ idx = n + 1
          /\ consecutive_failures = n
          /\ calls = [k \in 1..n |->
                        [pos |-> k,
                         details |-> [director |-> UNKNOWN, country |-> UNKNOWN],
                         attempts |-> max_retries]]
    /\ current_delay = 0
    /\ actual_delay = 0
    /\ attempt = 0
    /\ details = [director |-> UNKNOWN, country |-> UNKNOWN]
    /\ InitOtherIdle

NextDelay == Wait

SpecDelay == InitDelay /\ [][NextDelay]_vars

\* runs of main, one after the other, on the pages of MainDocs
InitMain ==
    /\ pc = "main"
    /\ doc = <<>>
    /\ InitCommon
    /\ arg = <<>>
    /\ result = <<>>

NextMain ==
    \/ MainStart \/ MainFetchFail
    \/ FindTables \/ PrioritizeSection \/ ScanTables \/ ResolveColumns
    \/ ExtractMainRow \/ ReturnFilms
    \/ MainNoData \/ MainEnrich \/ MainExcept
    \/ EnrichStart \/ SkipFilm \/ Wait \/ FetchFail \/ FetchOk \/ Apply \/ EnrichReturn
    \/ CreateDatabase \/ CreateDatabaseFail \/ ExportToJson

SpecMain == InitMain /\ [][NextMain]_vars

\* the notebook's enrich_film_data on every list of up to MaxFilms extracted
\* records, without cap and with every cap from -1 to MaxFilms + 1
InitNbEnrich ==
    /\ pc = "nb_enrich"
    /\ doc = <<>>
    /\ tables = <<>>
    /\ table = 0
    /\ headers = <<>>
    /\ title_idx = -1
    /\ year_idx = -1
    /\ box_office_idx = -1
    /\ nrows = 0
    /\ cells = <<>>
    /\ heap \in SeqsUpTo(Films, MaxFilms)
    /\ films_data = [k \in 1..Len(heap) |-> k]
    /\ arg = <<>>
    /\ result = <<>>
    /\ InitEnrichIdle
    /\ log = <<>>
    /\ db = <<>>
    /\ json_file = <<>>
    /\ runs = 0
    /\ called = <<>>
    /\ outcome = "none"
    /\ max_films \in {<<>>} \cup {<<k>> : k \in (-1)..(MaxFilms + 1)}
    /\ films_to_enrich = <<>>

NextNbEnrich == NbEnrichStart \/ NbSkipFilm \/ NbFetch \/ NbEnrichReturn

SpecNbEnrich == InitNbEnrich /\ [][NextNbEnrich]_vars

\* detail extraction on every page of DetailPages
InitDetail ==
    /\ pc = "page"
    /\ doc = <<>>
    /\ InitCommon
    /\ arg \in DetailPages
    /\ result = <<>>

NextDetail == GetDetails \/ NbGetDetails

SpecDetail == InitDetail /\ [][NextDetail]_vars

\* enrich_film_data on every list of up to MaxLiveFilms records, run to its
\* end: the one thread of the program keeps taking steps, every request
\* returns or times out and every sleep ends
InitEnrichLive == InitEnrich /\ Len(heap) <= MaxLiveFilms

SpecEnrichLive == InitEnrichLive /\ [][NextEnrich]_vars /\ WF_vars(NextEnrich)

-----------------------------------------------------------------------------
(* C1: table selection *)

\* the candidate list the claim describes: the first table following the first
\* h1-h3 'highest-grossing films' heading, then the marker-class tables in
\* document order, or all tables when none carries the marker
C1_Headings(d) ==
    {i \in 1..Len(d) : d[i].kind \in {"h1", "h2", "h3"}
                       /\ Contains(Lower(d[i].text), KwHeading)}

C1_FirstHeading(d) == CHOOSE i \in C1_Headings(d) : \A j \in C1_Headings(d) : i <= j

C1_After(d) ==
    IF C1_Headings(d) = {} THEN {}
    ELSE {j \in 1..Len(d) : j > C1_FirstHeading(d) /\ d[j].kind = "table"}

C1_Marked(d) ==
    IF \E i \in 1..Len(d) : d[i].kind = "table" /\ d[i].wikitable
    THEN {i \in 1..Len(d) : d[i].kind = "table" /\ d[i].wikitable}
    ELSE {i \in 1..Len(d) : d[i].kind = "table"}

C1_Good(t) ==
    LET ths == t.head \o t.body_th
    IN /\ \E i \in 1..Len(ths) :
            Contains(Lower(ths[i]), KwTitle) \/ Contains(Lower(ths[i]), KwFilm)
       /\ \E i \in 1..Len(ths) :
            \/ Contains(Lower(ths[i]), KwBoxOffice)
            \/ Contains(Lower(ths[i]), KwGross)
            \/ Contains(Lower(ths[i]), KwWorldwide)

\* position of table j in the claim's candidate order: the heading's table is
\* first, the marked tables follow in document order
C1_Before(d, i, j) ==
    LET sec == IF C1_After(d) = {} THEN 0
               ELSE CHOOSE a \in C1_After(d) : \A b \in C1_After(d) : a <= b
    IN IF i = sec THEN j # sec
       ELSE j # sec /\ i < j

C1_Candidates(d) == C1_Marked(d) \cup
    (IF C1_After(d) = {} THEN {}
     ELSE {CHOOSE a \in C1_After(d) : \A b \in C1_After(d) : a <= b})

C1_Selected(d) ==
    LET cand == C1_Candidates(d)
        good == {i \in cand : C1_Good(d[i])}
        pool == IF good # {} THEN good ELSE cand
    IN CHOOSE i \in pool : \A j \in pool \ {i} : C1_Before(d, i, j)

\* C1: once the table scan has run, the selected table is the first candidate
\* (heading's table first, then the marker tables, or all tables when none is
\* marked) whose headers name a title/film column and a box office/gross/worldwide
\* column, else the first candidate; it is never None when the document has a table
C1_TableSelection ==
    pc \in {"resolve", "rows", "raised"} =>
        /\ table # 0
        /\ table = C1_Selected(doc)

C1_NeverNotFound ==
    (pc = "returned" /\ table = 0) => \A i \in 1..Len(doc) : doc[i].kind # "table"

-----------------------------------------------------------------------------
(* C8: title-column resolution for header lists with a 'title' header *)

C8_TitleAt(i) == Contains(Lower(doc[table].head[i]), KwTitle)

C8_FilmAt(i) == Contains(Lower(doc[table].head[i]), KwFilm)

C8_HasTitle == \E i \in 1..Len(doc[table].head) : C8_TitleAt(i)

\* C8 as stated: whenever some header contains 'title', the title role is the
\* index of a header containing 'title', whatever precedes it
C8_Original ==
    (pc = "rows" /\ C8_HasTitle) =>
        /\ title_idx + 1 \in 1..Len(doc[table].head)
        /\ C8_TitleAt(title_idx + 1)

\* C8 amended: whenever some header contains 'title', the title role is the
\* index of the first header containing 'title' or 'film'; it is the first
\* 'title' header exactly when no header containing 'film' stands before it
C8_Theorem ==
    (pc = "rows" /\ C8_HasTitle) =>
        LET n == Len(doc[table].head)
            ft == CHOOSE i \in 1..n :
                    C8_TitleAt(i) /\ \A j \in 1..(i - 1) : ~C8_TitleAt(j)
            films == {j \in 1..(ft - 1) : C8_FilmAt(j)}
        IN IF films = {}
           THEN title_idx + 1 = ft
           ELSE /\ title_idx + 1 \in films
                /\ \A j \in films : title_idx + 1 <= j

\* a 'title' header in the last position, behind headers without 'film', is found
C8_Witness ==
    /\ pc = "rows"
    /\ Len(doc[table].head) = MaxHeaders
    /\ C8_TitleAt(MaxHeaders)
    /\ \A j \in 1..(MaxHeaders - 1) : ~C8_TitleAt(j) /\ ~C8_FilmAt(j)
    /\ title_idx = MaxHeaders - 1

-----------------------------------------------------------------------------
(* C7: box-office magnitude repair *)

C7_DigitOnly(s) == s # <<>> /\ \A i \in 1..Len(s) : s[i] \in Digits

\* the decimal digits of the integer value v of a digit text
C7_V == DropLeadingZeros(arg)

C7_D == IF C7_V = <<>> THEN 1 ELSE Len(C7_V)

\* v <= 5,000,000,000
C7_AtMostFiveBillion ==
    \/ Len(C7_V) < 10
    \/ Len(C7_V) = 10 /\ ~DigitsGreater(C7_V, FiveBillion)

-----------------------------------------------------------------------------
(* Claims about the record of one data row.  RowEmitted: the row consumed   *)
(* last was long enough, so the last record of films_data was made from it. *)

RowEmitted ==
    /\ pc \in {"rows", "returned"}
    /\ nrows > 0
    /\ Len(cells) > Max(title_idx, box_office_idx)

LastRecord == heap[films_data[Len(films_data)]]

\* the row has a cell in the year column
HasYearCell == year_idx # -1 /\ year_idx < Len(cells)

YearCellText == Strip(PyIndex(cells, year_idx).text)

\* the title of the row before any year suffix is stripped
TitleText == RowTitle(PyIndex(cells, title_idx))

-----------------------------------------------------------------------------
(* C2: year resolution order *)

\* C2 as stated: a 19xx/20xx token of the year cell is the release year; the
\* parenthesized year of the title is used, and stripped, when the year column
\* yields no value or does not exist; the year is 0 only when neither source
\* yields one
C2_Original ==
    RowEmitted =>
        LET tok == IF HasYearCell THEN YearTokenPos(YearCellText) ELSE 0
            q == ParenYearPos(TitleText)
        IN /\ tok # 0 => LastRecord.release_year = Int4(YearCellText, tok)
           /\ (tok = 0 /\ q # 0) =>
                 /\ LastRecord.release_year = Int4(TitleText, q + 1)
                 /\ LastRecord.title = Strip(RemoveParenYears(TitleText))
           /\ LastRecord.release_year = 0 => (tok = 0 /\ q = 0)

\* C2 amended: with a cell in the year column, the release year is the first
\* 19xx/20xx token of that cell, or 0 when it has none, and the title keeps any
\* parenthesized year; only without a cell in a year column is the parenthesized
\* year of the title used and stripped, and the year is 0 when the title has none
C2_Theorem ==
    RowEmitted =>
        IF HasYearCell
        THEN LET tok == YearTokenPos(YearCellText)
             IN /\ LastRecord.release_year =
                      IF tok # 0 THEN Int4(YearCellText, tok) ELSE 0
                /\ LastRecord.title = TitleText
        ELSE LET q == ParenYearPos(TitleText)
             IN IF q # 0
                THEN /\ LastRecord.release_year = Int4(TitleText, q + 1)
                     /\ LastRecord.title = Strip(RemoveParenYears(TitleText))
                ELSE /\ LastRecord.release_year = 0
                     /\ LastRecord.title = TitleText

\* a year cell without a year token next to a title with a parenthesized year:
\* the year is 0 and the title keeps its suffix
C2_Witness ==
    /\ RowEmitted
    /\ HasYearCell
    /\ YearTokenPos(YearCellText) = 0
    /\ ParenYearPos(TitleText) # 0
    /\ LastRecord.release_year = 0
    /\ ParenYearPos(LastRecord.title) # 0

-----------------------------------------------------------------------------
(* C3: range of the release year *)

\* C3 as stated, with 2026 as the current year: the release year of every
\* record is 0 or lies in [1900, current_year + 5]
C3_Original ==
    \A k \in 1..Len(films_data) :
        \/ heap[films_data[k]].release_year = 0
        \/ heap[films_data[k]].release_year \in 1900..(2026 + 5)

\* C3 amended: a release year taken from the year column is 0 or lies in
\* [1900, 2099]; one taken from the title is the value of a parenthesized
\* four-digit group, anything in [0, 9999]
C3_Theorem ==
    RowEmitted =>
        IF HasYearCell
        THEN LastRecord.release_year \in {0} \cup 1900..2099
        ELSE LastRecord.release_year \in 0..9999

\* a year outside the window, taken from the title
C3_Witness ==
    /\ RowEmitted
    /\ ~HasYearCell
    /\ LastRecord.release_year = 3000

-----------------------------------------------------------------------------
(* C4: non-empty titles *)

\* C4: every emitted record has a non-empty title
C4_Original ==
    \A k \in 1..Len(films_data) : heap[films_data[k]].title # <<>>

-----------------------------------------------------------------------------
(* C5: footnote markers *)

\* the text has a substring '[' digits ']'
C5_HasMarker(s) ==
    \E i \in 1..Len(s) : \E j \in (i + 2)..Len(s) :
        /\ s[i] = "["
        /\ s[j] = "]"
        /\ \A k \in (i + 1)..(j - 1) : s[k] \in Digits

\* C5: for every cell text, the title of the row extractor and the director or
\* country of get_film_details contain no substring '[' digits ']'
C5_Original == pc \in {"title", "detail"} => ~C5_HasMarker(result)

-----------------------------------------------------------------------------
(* C6: director and country are never empty *)

\* C6: the director and the country of every record of enrich_film_data are
\* never the empty string
C6_Original ==
    \A k \in 1..Len(enriched_data) :
        /\ heap[enriched_data[k]].director # <<>>
        /\ heap[enriched_data[k]].country # <<>>

-----------------------------------------------------------------------------
(* C9: the delay before a request *)

C9_Slept == pc = "fetch" /\ attempt = 0

\* C9 as stated: the delay slept is at least 0.5 and at most the ceiling 10.0,
\* and above the base delay 1.0 after three failures
C9_Original ==
    C9_Slept =>
        /\ 10 * actual_delay >= 5 * DelayScale
        /\ actual_delay <= 10 * DelayScale
        /\ consecutive_failures = 3 => actual_delay > 1 * DelayScale

\* C9 amended: the delay before the jitter is at most the ceiling 10.0; the
\* delay slept is at least 0.5 and at most 1.3 times the ceiling, 13.0; after
\* three failures it is above the base delay 1.0
C9_Theorem ==
    C9_Slept =>
        /\ current_delay <= 10 * DelayScale
        /\ 10 * actual_delay >= 5 * DelayScale
        /\ actual_delay <= 13 * DelayScale
        /\ consecutive_failures = 3 => actual_delay > 1 * DelayScale

\* after three failures a delay above the ceiling has been slept
C9_Witness ==
    /\ C9_Slept
    /\ consecutive_failures >= 3
    /\ actual_delay > 10 * DelayScale

-----------------------------------------------------------------------------
(* C10: what enrich_film_data does to the records it is given *)

C10_Returned == pc = "enriched"

\* C10 as stated: the returned list holds the record objects of the input list,
\* and every input record that was looked up carries the details of its call
C10_Original ==
    C10_Returned =>
        /\ enriched_data = films_data
        /\ \A c \in 1..Len(calls) :
              /\ heap[films_data[calls[c].pos]].director = calls[c].details.director
              /\ heap[films_data[calls[c].pos]].country = calls[c].details.country

\* C10 amended: the returned list holds new record objects, one copy per input
\* record in the same order; every copy with a non-empty wiki_link carries the
\* director and country of its detail call, every other copy and every record
\* object of the input list is as it was given
C10_Theorem ==
    C10_Returned =>
        /\ Len(enriched_data) = Len(films_data)
        /\ \A k \in 1..Len(films_data) : \A j \in 1..Len(enriched_data) :
              films_data[k] # enriched_data[j]
        /\ \A k \in 1..Len(films_data) :
              LET given == heap[films_data[k]]
                  copy == heap[enriched_data[k]]
                  mine == {c \in 1..Len(calls) : calls[c].pos = k}
              IN /\ given.director = UNKNOWN /\ given.country = UNKNOWN
                 /\ copy.title = given.title /\ copy.wiki_link = given.wiki_link
                 /\ copy.release_year = given.release_year
                 /\ copy.box_office = given.box_office
                 /\ IF given.wiki_link # ""
                    THEN /\ Cardinality(mine) = 1
                         /\ \A c \in mine :
                               /\ copy.director = calls[c].details.director
                               /\ copy.country = calls[c].details.country
                    ELSE /\ mine = {}
                         /\ copy.director = UNKNOWN /\ copy.country = UNKNOWN

\* a copy carries an extracted director while the record given stays 'Unknown'
C10_Witness ==
    /\ C10_Returned
    /\ \E k \in 1..Len(films_data) :
          /\ heap[enriched_data[k]].director \notin {UNKNOWN, <<>>}
          /\ heap[films_data[k]].director = UNKNOWN

-----------------------------------------------------------------------------
(* C11: what the films table holds after a run *)

\* the records the last run produced: those enrich_film_data returned, none
\* when parse_html_content returned an empty list
C11_Produced ==
    IF outcome = "completed" THEN DbRows(enriched_data, heap) ELSE <<>>

\* C11: after every run of main that extracted records or extracted none, the
\* films table holds exactly the records that run produced, in order, and no
\* row of an earlier run, also when the run extracted zero records or its
\* database step failed (a table without any row is not held against the
\* claim: only rows that the last run did not produce are)
C11_Original ==
    (pc = "main" /\ outcome \in {"no_data", "completed"}) =>
        (db = C11_Produced \/ db = <<>>)

-----------------------------------------------------------------------------
(* C12: a page without any table *)

C12_NoTable == \A i \in 1..Len(doc) : doc[i].kind # "table"

\* C12: on a fetched page without any table element parse_html_content returns
\* an empty list without raising and main stops there: it has called nothing
\* but the fetch and the parse, the run ends as 'no data', and neither the
\* films table nor the JSON file is written
C12_Theorem ==
    /\ [](  (outcome \in {"running", "no_data", "completed"} /\ C12_NoTable) =>
               /\ pc \in {"start", "returned", "main"}
               /\ films_data = <<>>
               /\ called = <<"fetch_wikipedia_page", "parse_html_content">>
               /\ pc = "main" => outcome = "no_data")
    /\ [][C12_NoTable' => (db' = db /\ json_file' = json_file)]_vars

\* a run on a page with a heading and no table has ended as 'no data'
C12_Witness ==
    /\ pc = "main"
    /\ outcome = "no_data"
    /\ doc # <<>>
    /\ C12_NoTable

-----------------------------------------------------------------------------
(* C13: the notebook's enrich_film_data with a cap *)

C13_Linked(ids) == {k \in 1..Len(ids) : heap[ids[k]].wiki_link # ""}

C13_Fetched == {calls[c].pos : c \in 1..Len(calls)}

\* every call is of a linked record, the calls are in list order, the record
\* carries the details of its call, every other record is 'Unknown'
C13_Frame ==
    /\ \A c \in 1..Len(calls) :
          /\ calls[c].pos \in C13_Linked(films_data)
          /\ heap[films_data[calls[c].pos]].director = calls[c].details.director
          /\ heap[films_data[calls[c].pos]].country = calls[c].details.country
          /\ \A e \in 1..(c - 1) : calls[e].pos < calls[c].pos
    /\ \A k \in 1..Len(films_data) :
          k \notin C13_Fetched =>
             /\ heap[films_data[k]].director = UNKNOWN
             /\ heap[films_data[k]].country = UNKNOWN
    /\ result = films_data
    /\ Len(heap) = Len(films_data)

\* C13 as stated: with a cap k the number of fetched records is min(k, number
\* of linked records); unfetched records keep 'Unknown' and all input records
\* are returned
C13_Original ==
    (pc = "nb_enriched" /\ max_films # <<>> /\ max_films[1] >= 0) =>
        /\ Len(calls) = Min(max_films[1], Cardinality(C13_Linked(films_data)))
        /\ C13_Frame

\* C13 amended: the fetched records are the linked records among the records
\* of films_data[:k] (the first k records for k >= 0, all but the last |k| for
\* k < 0, all without cap), each fetched once, in list order; with k >= 0
\* their number is at most min(k, number of linked records); unfetched
\* records keep 'Unknown' and the list returned is the input list with all
\* its records
C13_Theorem ==
    pc = "nb_enriched" =>
        LET n == Len(films_data)
            cut == IF max_films = <<>> THEN n
                   ELSE IF max_films[1] >= 0 THEN Min(max_films[1], n)
                   ELSE Max(0, n + max_films[1])
        IN /\ C13_Fetched = {k \in C13_Linked(films_data) : k <= cut}
           /\ Len(calls) = Cardinality(C13_Fetched)
           /\ (max_films # <<>> /\ max_films[1] >= 0) =>
                 Len(calls) <= Min(max_films[1], Cardinality(C13_Linked(films_data)))
           /\ C13_Frame

\* with the cap 1 on a list whose first record has no link and whose second
\* record has one, nothing was fetched
C13_Witness ==
    /\ pc = "nb_enriched"
    /\ max_films = <<1>>
    /\ Len(films_data) >= 2
    /\ heap[films_data[1]].wiki_link = ""
    /\ heap[films_data[2]].wiki_link # ""
    /\ calls = <<>>

-----------------------------------------------------------------------------
(* C14: director and country of a detail page *)

\* a value as it stands in the record: not empty, not the sentinel, without
\* footnote brackets, separators, the word 'and', blanks at its ends or runs
\* of blanks
C14_Clean(v) ==
    /\ v # <<>>
    /\ v # UNKNOWN
    /\ v[1] # " " /\ v[Len(v)] # " "
    /\ \A i \in 1..Len(v) : v[i] \notin {",", ";", "|", "[", "]"}
    /\ \A i \in 1..(Len(v) - 1) : ~(v[i] = " " /\ v[i + 1] = " ")
    /\ \A i \in 1..(Len(v) - 2) : SubSeq(v, i, i + 2) # <<"a", "n", "d">>

\* the info box has one director row, labelled 'Directed by', with a value
\* cell, and no country row
C14_DirectedByOnly ==
    /\ arg.infobox
    /\ Len(arg.director_rows) = 1
    /\ arg.director_rows[1].directed_by
    /\ arg.director_rows[1].td
    /\ arg.country_rows = <<>>

C14_V == arg.director_rows[1].text

\* the info box has a country link with a visible text that has no 'film'
C14_CountryLink ==
    \E i \in 1..Len(arg.country_links) :
        /\ \E j \in 1..Len(arg.country_links[i]) : arg.country_links[i][j] # " "
        /\ ~Contains(Lower(arg.country_links[i]), KwFilm)

C14_NoPanel ==
    ~arg.infobox => result = [director |-> UNKNOWN, country |-> UNKNOWN]

\* C14 as stated, for a value V that needs no cleaning: in both variants a
\* 'Directed by' row with value V and no country row give director = V and
\* country = 'Unknown'; no info box gives both 'Unknown', whatever else the
\* page holds
C14_Original ==
    pc \in {"details", "nb_details"} =>
        /\ (C14_DirectedByOnly /\ C14_Clean(C14_V)) =>
              /\ result.director = C14_V
              /\ result.country = UNKNOWN
        /\ C14_NoPanel

\* C14 amended: a 'Directed by' row with a value V that needs no cleaning
\* gives director = V whatever the country rows and links are; without a
\* country row the country is 'Unknown' in data_extraction, and in the
\* notebook it is 'Unknown' exactly when the info box has no country link
\* with a visible text free of 'film'; no info box gives both 'Unknown',
\* whatever else the page holds
C14_Theorem ==
    pc \in {"details", "nb_details"} =>
        /\ (C14_DirectedByOnly /\ C14_Clean(C14_V)) =>
              /\ result.director = C14_V
              /\ pc = "details" => result.country = UNKNOWN
              /\ pc = "nb_details" => (result.country = UNKNOWN <=> ~C14_CountryLink)
        /\ (/\ arg.infobox
            /\ arg.director_rows # <<>>
            /\ arg.director_rows[1].directed_by
            /\ arg.director_rows[1].td
            /\ C14_Clean(arg.director_rows[1].text)) =>
              result.director = arg.director_rows[1].text
        /\ C14_NoPanel

\* the notebook reads the director from the row and, without a country row,
\* the country from a link of the info box
C14_Witness ==
    /\ pc = "nb_details"
    /\ C14_DirectedByOnly
    /\ result.director = C14_V
    /\ result.country \notin {UNKNOWN, <<>>}

-----------------------------------------------------------------------------
(* C15: the consecutive-failure counter *)

C15_BothUnknown(d) == d.director = UNKNOWN /\ d.country = UNKNOWN

-----------------------------------------------------------------------------
(* C16: the retry loop of get_film_details *)

C16_Timeouts == <<10, 20, 40>>

C16_Waits == <<1, 2, 0>>

-----------------------------------------------------------------------------
(* C17: the states of a record during enrichment *)

C17_Linked == {k \in 1..Len(enriched_data) : heap[enriched_data[k]].wiki_link # ""}

C17_CallsOf(k) == {c \in 1..Len(calls) : calls[c].pos = k}

C17_Fetching(k) == pc \in {"fetch", "apply"} /\ idx = k

\* Enriched or FailedKeepDefaults: the call of the record has returned and
\* has been written
C17_Terminal(k) == C17_CallsOf(k) # {}

C17_Pending(k) == ~C17_Fetching(k) /\ ~C17_Terminal(k)

RECURSIVE C17_Attempts(_)
C17_Attempts(cs) == IF cs = <<>> THEN 0 ELSE Head(cs).attempts + C17_Attempts(Tail(cs))

C17_States ==
    /\ \A k \in C17_Linked :
          /\ Cardinality(C17_CallsOf(k)) <= 1
          /\ ~(C17_Fetching(k) /\ C17_Terminal(k))
          /\ C17_Terminal(k) <=> k < idx
          /\ C17_Pending(k) => C15_BothUnknown(heap[enriched_data[k]])
          /\ \A c \in C17_CallsOf(k) :
                /\ heap[enriched_data[k]].director = calls[c].details.director
                /\ heap[enriched_data[k]].country = calls[c].details.country
    /\ \A c \in 1..Len(calls) : calls[c].pos \in C17_Linked
    /\ C17_Attempts(calls) + Len(log) <= 3 * Cardinality(C17_Linked)
    /\ pc = "enriched" => \A k \in C17_Linked : C17_Terminal(k)

C17_Steps ==
    \A k \in C17_Linked :
        /\ (C17_Pending(k) /\ ~C17_Pending(k)') => C17_Fetching(k)'
        /\ (C17_Fetching(k) /\ ~C17_Fetching(k)') => C17_Terminal(k)'
        /\ C17_Terminal(k) =>
              /\ C17_Terminal(k)'
              /\ ~C17_Fetching(k)'
              /\ heap'[enriched_data'[k]] = heap[enriched_data[k]]

\* C17: every linked record is Pending, then Fetching, then terminal, with
\* one call at most; a record leaves Pending only for Fetching and Fetching
\* only for a terminal state, in which it carries the details of its call and
\* is not fetched or written again; the requests made are at most 3 per
\* linked record; and enrich_film_data returns, with every linked record in a
\* terminal state
C17_Theorem ==
    /\ []C17_States
    /\ [][C17_Steps]_vars
    /\ <>(pc = "enriched")

\* the function has returned with one record failed after 3 requests and
\* another enriched
C17_Witness ==
    /\ pc = "enriched"
    /\ Len(calls) = 2
    /\ C15_BothUnknown(calls[1].details)
    /\ calls[1].attempts = 3
    /\ ~C15_BothUnknown(calls[2].details)

-----------------------------------------------------------------------------
(* C18: order of the detail fetches *)

\* the counter that the outcomes of the calls made so far leave, taken one
\* after the other from 0
RECURSIVE C18_Counter(_)
C18_Counter(cs) ==
    IF cs = <<>> THEN 0
    ELSE LET before == C18_Counter(SubSeq(cs, 1, Len(cs) - 1))
         IN IF C15_BothUnknown(cs[Len(cs)].details) THEN before + 1
            ELSE IF before > 0 THEN before - 1 ELSE 0

\* the delay before the jitter for a counter n, in units of 1 / DelayScale s:
\* 1 s doubled n times, 10 s at most
C18_Delay(n) ==
    IF n = 0 THEN DelayScale
    ELSE IF n = 1 THEN 2 * DelayScale
    ELSE IF n = 2 THEN 4 * DelayScale
    ELSE IF n = 3 THEN 8 * DelayScale
    ELSE 10 * DelayScale

\* C18: the calls are made in list order; while a record is being fetched
\* every linked record before it has had its call, no record from it on has,
\* the counter is the one the outcomes of those earlier calls leave, in their
\* order, and the delay slept before the fetch was computed from that counter;
\* between two fetches the counter is the one all calls made so far leave
C18_Theorem ==
    /\ \A c \in 1..Len(calls) : \A e \in 1..(c - 1) : calls[e].pos < calls[c].pos
    /\ pc \in {"loop", "fetch", "apply", "enriched"} =>
          /\ consecutive_failures = C18_Counter(calls)
          /\ \A k \in C17_Linked : C17_Terminal(k) <=> k < idx
    /\ pc \in {"fetch", "apply"} =>
          /\ idx \in C17_Linked
          /\ current_delay = C18_Delay(C18_Counter(calls))

\* the third linked record is being fetched after two failures: the delay
\* before the jitter was 4 seconds
C18_Witness ==
    /\ pc = "fetch"
    /\ idx = 3
    /\ Len(calls) = 2
    /\ consecutive_failures = 2
    /\ current_delay = 4 * DelayScale

-----------------------------------------------------------------------------
(* C19: short rows *)

\* the record a step has appended to films_data
C19_Emitted ==
    /\ Len(films_data') = Len(films_data) + 1
    /\ SubSeq(films_data', 1, Len(films_data)) = films_data
    /\ Len(heap') = Len(heap) + 1
    /\ films_data'[Len(films_data')] = Len(heap')
    /\ DOMAIN heap'[Len(heap')] =
          {"title", "release_year", "box_office", "wiki_link", "director", "country"}

\* C19 as stated: each iteration over a data row appends one complete record
\* after the records of the rows before it exactly when the row has more cells
\* than max(title_idx, box_office_idx), and leaves the list as it was
\* otherwise; the year column takes no part, and the loop goes on either way
C19_Original ==
    [][(pc = "rows" /\ pc' = "rows") =>
         /\ nrows' = nrows + 1
         /\ IF Len(cells') > Max(title_idx, box_office_idx)
            THEN C19_Emitted
            ELSE films_data' = films_data /\ heap' = heap]_vars

-----------------------------------------------------------------------------
(* C20: the revenue column *)

\* the header indices, from 0, with a revenue keyword and with a currency glyph
C20_Keyword(hs) ==
    {i \in 0..(Len(hs) - 1) :
        \/ Contains(hs[i + 1], <<"b","o","x"," ","o","f","f","i","c","e">>)
        \/ Contains(hs[i + 1], <<"g","r","o","s","s">>)
        \/ Contains(hs[i + 1], <<"w","o","r","l","d","w","i","d","e">>)}

C20_Currency(hs) ==
    {i \in 0..(Len(hs) - 1) :
        \E g \in {<<"$">>, <<"YEN">>, <<"EURO">>} : Contains(hs[i + 1], g)}

C20_Least(S) == CHOOSE i \in S : \A j \in S : i <= j

\* the index the three rules give
C20_Rule(hs) ==
    IF C20_Keyword(hs) # {} THEN C20_Least(C20_Keyword(hs))
    ELSE IF C20_Currency(hs) # {} THEN C20_Least(C20_Currency(hs))
    ELSE IF Len(hs) >= 3 THEN 2 ELSE Len(hs) - 1

\* C20 as stated: the resolved index is the one the three rules give and, for
\* every header list, a position inside the list
C20_Original ==
    pc = "rows" =>
        /\ box_office_idx = C20_Rule(headers)
        /\ box_office_idx \in 0..(Len(headers) - 1)

\* C20: the resolved index is the first index with a revenue keyword; without
\* one the first index with a currency glyph; without one 2 when there are 3
\* headers or more, else the last index.  For a header list with a header it
\* is a position inside the list; for the list without any header it is -1,
\* Python's index of the last cell of a row
C20_Theorem ==
    pc = "rows" =>
        /\ box_office_idx = C20_Rule(headers)
        /\ IF headers = <<>> THEN box_office_idx = -1
           ELSE box_office_idx \in 0..(Len(headers) - 1)

\* a keyword header has won over a currency header standing before it
C20_Witness ==
    /\ pc = "rows"
    /\ C20_Keyword(headers) # {}
    /\ C20_Currency(headers) # {}
    /\ C20_Least(C20_Currency(headers)) < C20_Least(C20_Keyword(headers))
    /\ box_office_idx = C20_Least(C20_Keyword(headers))

-----------------------------------------------------------------------------
(* C21: the title column and the year column *)

\* text of the i-th header cell of the selected table, from 0, as the code
\* compares it: stripped and in lower case
C21_Header(i) == Lower(Strip(doc[table].head[i + 1]))

C21_Count == Len(doc[table].head)

\* the header indices with 'title' or 'film', and with a year word
C21_TitleHeaders ==
    {i \in 0..(C21_Count - 1) :
        \/ Contains(C21_Header(i), <<"t","i","t","l","e">>)
        \/ Contains(C21_Header(i), <<"f","i","l","m">>)}

C21_YearHeaders ==
    {i \in 0..(C21_Count - 1) :
        \/ Contains(C21_Header(i), <<"y","e","a","r">>)
        \/ Contains(C21_Header(i), <<"r","e","l","e","a","s","e","d">>)
        \/ Contains(C21_Header(i), <<"r","e","l","e","a","s","e">>)}

C21_Least(S) == CHOOSE i \in S : \A j \in S : i <= j

\* C21: the title role is the first header index with 'title' or 'film'
\* (compared in lower case); without such a header it is 1 when there are 2
\* headers or more and 0 otherwise, so it is never absent (-1).  The year role
\* is the first header index with 'year', 'released' or 'release', and absent
\* (-1) when no header has one
C21_Theorem ==
    pc = "rows" =>
        /\ title_idx = IF C21_TitleHeaders # {} THEN C21_Least(C21_TitleHeaders)
                       ELSE IF C21_Count >= 2 THEN 1 ELSE 0
        /\ title_idx # -1
        /\ year_idx = IF C21_YearHeaders # {} THEN C21_Least(C21_YearHeaders)
                      ELSE -1

\* two or more headers, none with 'title', 'film' or a year word: the title
\* role took the default 1 and the year role is absent
C21_Witness ==
    /\ pc = "rows"
    /\ C21_Count >= 2
    /\ C21_TitleHeaders = {}
    /\ C21_YearHeaders = {}
    /\ title_idx = 1
    /\ year_idx = -1

====
